---- MODULE Spec2Model ----
(***************************************************************************)
(* Model of sirun's configuration loader (src/config.rs): get_config reads *)
(* a JSON document, applies the top-level object onto a ProtoConfig,       *)
(* optionally applies one variant chosen by SIRUN_VARIANT, and converts    *)
(* the ProtoConfig into a Config.                                          *)
(*                                                                         *)
(* Strings are sequences of one-character strings, so that shell splitting *)
(* and the parsing of the selector are computed character by character.    *)
(***************************************************************************)
EXTENDS Integers, Sequences, FiniteSets, TLC

VARIABLES file, envvar, pc, config_val, config, variant_key, config_json,
          result, selRead, passes

vars == <<file, envvar, pc, config_val, config, variant_key, config_json,
          result, selRead, passes>>

(***************************************************************************)
(* Bounds of the model.                                                    *)
(***************************************************************************)
\* longest `variants` array
MaxVariants == 2
\* largest numeric selector
MaxIndex == 2

(***************************************************************************)
(* serde_json::Value                                                       *)
(***************************************************************************)
JNull == [t |-> "null"]
JNum(n) == [t |-> "num", n |-> n]
JFloat == [t |-> "float"]
JStr(s) == [t |-> "str", s |-> s]
JArr(a) == [t |-> "arr", a |-> a]
JMap(m) == [t |-> "obj", o |-> m]

\* the map holding the key/value pairs P (keys unique)
MapOf(P) == [k \in {p[1] : p \in P} |-> (CHOOSE p \in P : p[1] = k)[2]]
JObj(P) == JMap(MapOf(P))

\* Value::as_str, as_u64, as_object, as_array succeed exactly on these
IsStr(v) == v.t = "str"
\* as_u64 taken to accept only the integers the error message names
IsU64_positive(v) == v.t = "num" /\ v.n > 0
IsU64(v) == v.t = "num" /\ v.n >= 0
IsObject(v) == v.t = "obj"
IsArray(v) == v.t = "arr"

K_run == <<"r", "u", "n">>
K_setup == <<"s", "e", "t", "u", "p">>
K_timeout == <<"t", "i", "m", "e", "o", "u", "t">>
K_env == <<"e", "n", "v">>
K_variants == <<"v", "a", "r", "i", "a", "n", "t", "s">>

(***************************************************************************)
(* Option and Result                                                       *)
(***************************************************************************)
None == [some |-> FALSE]
Some(v) == [some |-> TRUE, v |-> v]
Ok(v) == [ok |-> TRUE, val |-> v]
Err(e) == [ok |-> FALSE, err |-> e]

\* ConfigError(String): the message, with the formatted argument kept apart
ConfigError(msg) == [msg |-> msg]
NameError(msg, name) == [msg |-> msg, name |-> name]

E_run_missing == ConfigError("'run' must be provided")
E_invalid_json == ConfigError("invalid json")
E_timeout == ConfigError("'timeout' must be a positive integer")
E_env_object == ConfigError("env must be an object")
E_env_strings == ConfigError("env vars must be strings")
E_variants_type == ConfigError("variants must be array or object")
E_io == ConfigError("io error")
E_json == ConfigError("json syntax error")
E_not_present == ConfigError("environment variable not found")
E_not_unicode == ConfigError("environment variable was not valid unicode")
E_index(i) == [msg |-> "variant index {} does not exist in array", idx |-> i]
E_key(k) == [msg |-> "variant key {} does not exist in object", key |-> k]
E_not_string(name) == NameError("'{}' must be a string", name)
E_not_shell(name) == NameError("'{}' must be a properly formed shell command", name)

(***************************************************************************)
(* shlex::split                                                            *)
(***************************************************************************)
\* the characters shlex treats specially
SQ == "'"
DQ == "\""
BS == "\\"
NL == "\n"
TAB == "\t"
\* the backquote character, written by name
BT == "backquote"
DOLLAR == "$"
HASH == "#"

IsSpace(ch) == ch \in {" ", TAB, NL}

RECURSIVE parse_single(_, _, _)
parse_single(s, i, acc) ==
  IF i > Len(s) THEN [ok |-> FALSE]
  ELSE IF s[i] = SQ THEN [ok |-> TRUE, acc |-> acc, next |-> i + 1]
  ELSE parse_single(s, i + 1, Append(acc, s[i]))

RECURSIVE parse_double(_, _, _)
parse_double(s, i, acc) ==
  IF i > Len(s) THEN [ok |-> FALSE]
  ELSE IF s[i] = DQ THEN [ok |-> TRUE, acc |-> acc, next |-> i + 1]
  ELSE IF s[i] = BS THEN
    IF i + 1 > Len(s) THEN [ok |-> FALSE]
    ELSE IF s[i + 1] = NL THEN parse_double(s, i + 2, acc)
    ELSE IF s[i + 1] \in {DOLLAR, BT, DQ, BS}
      THEN parse_double(s, i + 2, Append(acc, s[i + 1]))
    ELSE parse_double(s, i + 2, Append(Append(acc, BS), s[i + 1]))
  ELSE parse_double(s, i + 1, Append(acc, s[i]))

\* the word starting at s[i]; next is the first position after it
RECURSIVE parse_word(_, _, _)
parse_word(s, i, acc) ==
  IF i > Len(s) THEN [ok |-> TRUE, acc |-> acc, next |-> i]
  ELSE IF s[i] = DQ THEN
    LET r == parse_double(s, i + 1, acc)
    IN  IF r.ok THEN parse_word(s, r.next, r.acc) ELSE [ok |-> FALSE]
  ELSE IF s[i] = SQ THEN
    LET r == parse_single(s, i + 1, acc)
    IN  IF r.ok THEN parse_word(s, r.next, r.acc) ELSE [ok |-> FALSE]
  ELSE IF s[i] = BS THEN
    IF i + 1 > Len(s) THEN [ok |-> FALSE]
    ELSE IF s[i + 1] = NL THEN parse_word(s, i + 2, acc)
    ELSE parse_word(s, i + 2, Append(acc, s[i + 1]))
  ELSE IF IsSpace(s[i]) THEN [ok |-> TRUE, acc |-> acc, next |-> i + 1]
  ELSE parse_word(s, i + 1, Append(acc, s[i]))

\* position of the first character of the next word, Len(s) + 1 if none
RECURSIVE skip_blank(_, _, _)
skip_blank(s, i, inComment) ==
  IF i > Len(s) THEN i
  ELSE IF inComment THEN skip_blank(s, i + 1, s[i] # NL)
  ELSE IF IsSpace(s[i]) THEN skip_blank(s, i + 1, FALSE)
  ELSE IF s[i] = HASH THEN skip_blank(s, i + 1, TRUE)
  ELSE i

RECURSIVE shlex_collect(_, _, _)
shlex_collect(s, i, words) ==
  LET j == skip_blank(s, i, FALSE)
  IN  IF j > Len(s) THEN Some(words)
      ELSE LET w == parse_word(s, j, <<>>)
           IN  IF w.ok THEN shlex_collect(s, w.next, Append(words, w.acc))
               ELSE None

shlex_split(s) == shlex_collect(s, 1, <<>>)

(***************************************************************************)
(* str::parse::<usize>                                                     *)
(***************************************************************************)
Digits == <<"0", "1", "2", "3", "4", "5", "6", "7", "8", "9">>
IsDigit(ch) == \E d \in 1..10 : Digits[d] = ch
DigitVal(ch) == (CHOOSE d \in 1..10 : Digits[d] = ch) - 1

RECURSIVE parse_digits(_, _, _)
parse_digits(s, i, acc) ==
  IF i > Len(s) THEN Some(acc)
  ELSE IF IsDigit(s[i]) THEN parse_digits(s, i + 1, acc * 10 + DigitVal(s[i]))
  ELSE None

\* An optional "+" and then at least one digit; "-" is not a digit for an
\* unsigned type.  The digit strings of the model are far too short to
\* overflow usize.
parse_usize(s) ==
  IF Len(s) = 0 THEN None
  ELSE IF s[1] = "+" THEN (IF Len(s) = 1 THEN None ELSE parse_digits(s, 2, 0))
  ELSE parse_digits(s, 1, 0)

(***************************************************************************)
(* ProtoConfig, Config and the functions of config.rs                      *)
(***************************************************************************)
EmptyMap == MapOf({})

ProtoConfig(setup, run, timeout, env) ==
  [setup |-> setup, run |-> run, timeout |-> timeout, env |-> env]

Config(setup, run, timeout, env) ==
  [setup |-> setup, run |-> run, timeout |-> timeout, env |-> env]

\* a run that is unset becomes the empty command instead of an error
try_from_default(c) ==
  Ok(Config(c.setup, IF c.run.some THEN c.run.v ELSE <<>>, c.timeout, c.env))

try_from(c) ==
  IF c.run.some THEN Ok(Config(c.setup, c.run.v, c.timeout, c.env))
  ELSE Err(E_run_missing)

get_shell_command(obj, name) ==
  IF ~IsStr(obj[name]) THEN Err(E_not_string(name))
  ELSE LET words == shlex_split(obj[name].s)
       IN  IF words.some THEN Ok(words.v) ELSE Err(E_not_shell(name))

\* the env of the object replaces the env collected so far
get_env_replace(env, config_env) ==
  IF ~IsObject(config_env) THEN Err(E_env_object)
  ELSE IF \E k \in DOMAIN config_env.o : ~IsStr(config_env.o[k])
    THEN Err(E_env_strings)
  ELSE Ok([k \in DOMAIN config_env.o |-> config_env.o[k].s])

\* values that are not strings are skipped instead of rejected
get_env_skip(env, config_env) ==
  IF ~IsObject(config_env) THEN Err(E_env_object)
  ELSE LET strs == {k \in DOMAIN config_env.o : IsStr(config_env.o[k])}
       IN  Ok([k \in DOMAIN env \cup strs |->
                 IF k \in strs THEN config_env.o[k].s ELSE env[k]])

\* HashMap::insert of every pair of config_env, an error on any non-string
get_env(env, config_env) ==
  IF ~IsObject(config_env) THEN Err(E_env_object)
  ELSE IF \E k \in DOMAIN config_env.o : ~IsStr(config_env.o[k])
    THEN Err(E_env_strings)
  ELSE Ok([k \in DOMAIN env \cup DOMAIN config_env.o |->
             IF k \in DOMAIN config_env.o THEN config_env.o[k].s ELSE env[k]])

\* every entry of an array `variants` is checked to be an object
apply_config_eager(c, v) ==
  IF ~IsObject(v) THEN Err(E_invalid_json)
  ELSE IF /\ K_variants \in DOMAIN v.o
          /\ IsArray(v.o[K_variants])
          /\ \E n \in DOMAIN v.o[K_variants].a : ~IsObject(v.o[K_variants].a[n])
    THEN Err(E_invalid_json)
  ELSE
    LET obj == v.o
        run == IF K_run \in DOMAIN obj
                 THEN get_shell_command(obj, K_run) ELSE Ok(<<>>)
        setup == IF K_setup \in DOMAIN obj
                   THEN get_shell_command(obj, K_setup) ELSE Ok(<<>>)
        env == IF K_env \in DOMAIN obj
                 THEN get_env(c.env, obj[K_env]) ELSE Ok(c.env)
    IN  IF ~run.ok THEN run
        ELSE IF ~setup.ok THEN setup
        ELSE IF K_timeout \in DOMAIN obj /\ ~IsU64(obj[K_timeout])
          THEN Err(E_timeout)
        ELSE IF ~env.ok THEN env
        ELSE Ok(ProtoConfig(
               IF K_setup \in DOMAIN obj THEN Some(setup.val) ELSE c.setup,
               IF K_run \in DOMAIN obj THEN Some(run.val) ELSE c.run,
               IF K_timeout \in DOMAIN obj
                 THEN Some(obj[K_timeout].n) ELSE c.timeout,
               env.val))

apply_config(c, v) ==
  IF ~IsObject(v) THEN Err(E_invalid_json)
  ELSE
    LET obj == v.o
        run == IF K_run \in DOMAIN obj
                 THEN get_shell_command(obj, K_run) ELSE Ok(<<>>)
        setup == IF K_setup \in DOMAIN obj
                   THEN get_shell_command(obj, K_setup) ELSE Ok(<<>>)
        env == IF K_env \in DOMAIN obj
                 THEN get_env(c.env, obj[K_env]) ELSE Ok(c.env)
    IN  IF ~run.ok THEN run
        ELSE IF ~setup.ok THEN setup
        ELSE IF K_timeout \in DOMAIN obj /\ ~IsU64(obj[K_timeout])
          THEN Err(E_timeout)
        ELSE IF ~env.ok THEN env
        ELSE Ok(ProtoConfig(
               IF K_setup \in DOMAIN obj THEN Some(setup.val) ELSE c.setup,
               IF K_run \in DOMAIN obj THEN Some(run.val) ELSE c.run,
               IF K_timeout \in DOMAIN obj
                 THEN Some(obj[K_timeout].n) ELSE c.timeout,
               env.val))

(***************************************************************************)
(* Inputs: the contents of the file and the state of SIRUN_VARIANT         *)
(***************************************************************************)
S_ab == <<"a", " ", "b">>
S_quoted == <<"e", " ", SQ, "a", " ", "b", SQ, " ", "c">>
S_empty == <<>>
S_blank == <<" ", " ">>
S_open_quote == <<SQ, "a">>
S_open_double == <<DQ, "s">>
S_s == <<"s">>
S_c == <<"c">>
S_t == <<"t", " ", DQ, "u", BS, DQ, DQ>>

\* a field of an object: absent, or present with one of the values
Field(k, values) == {{}} \cup {{<<k, v>>} : v \in values}

RunValues ==
  {JStr(S_ab), JStr(S_quoted), JStr(S_empty), JStr(S_blank),
   JStr(S_open_quote), JNum(1)}
SetupValues == {JStr(S_s), JStr(S_open_double), JNull}
TimeoutValues == {JNum(0), JNum(5), JNum(0 - 1), JFloat, JStr(<<"5">>)}
EnvValues ==
  {JObj({<<<<"A">>, JStr(<<"1">>)>>, <<<<"B">>, JStr(<<"2">>)>>}),
   JObj({}),
   JObj({<<<<"A">>, JStr(<<"1">>)>>, <<<<"B">>, JNum(2)>>}),
   JArr(<<>>)}

\* every combination of the four fields
BaseFields ==
  {r \cup s \cup t \cup e :
     r \in Field(K_run, RunValues), s \in Field(K_setup, SetupValues),
     t \in Field(K_timeout, TimeoutValues), e \in Field(K_env, EnvValues)}

V_full ==
  JObj({<<K_run, JStr(S_c)>>, <<K_setup, JStr(S_t)>>,
        <<K_timeout, JNum(7)>>,
        <<K_env, JObj({<<<<"A">>, JStr(<<"9">>)>>, <<<<"C">>, JStr(<<"3">>)>>})>>})
V_nested ==
  JObj({<<K_run, JStr(S_c)>>,
        <<K_variants, JArr(<<JObj({<<K_run, JStr(S_s)>>}), JNull>>)>>})

\* the entries of the small `variants` containers
Entries ==
  {JObj({}), JObj({<<K_run, JStr(S_c)>>}), V_full, V_nested, JNull,
   JObj({<<K_timeout, JNum(0 - 1)>>}),
   JObj({<<K_env, JObj({<<<<"A">>, JStr(<<"9">>)>>})>>})}

\* every combination of the four fields of a variant
VariantFields ==
  {r \cup s \cup t \cup e :
     r \in Field(K_run, {JStr(S_c), JStr(S_open_quote)}),
     s \in Field(K_setup, {JStr(S_t)}),
     t \in Field(K_timeout, {JNum(7), JFloat}),
     e \in Field(K_env, {JObj({<<<<"A">>, JStr(<<"9">>)>>, <<<<"C">>, JStr(<<"3">>)>>}),
                         JObj({<<<<"A">>, JNull>>})})}

Arrays(n) == UNION {[1..m -> Entries] : m \in 0..n}
ObjectKeys == {<<"0">>, <<"x">>}
Objects == UNION {[K -> Entries] : K \in SUBSET ObjectKeys}

SimpleVariants ==
  {JStr(S_s), JArr(<<>>), JArr(<<JObj({})>>), JMap(MapOf({})),
   JMap(MapOf({<<<<"0">>, V_full>>}))}
RichVariants ==
  {JArr(a) : a \in Arrays(MaxVariants)} \cup {JMap(o) : o \in Objects}
    \cup {JArr(<<JObj(f)>>) : f \in VariantFields}
    \cup {JMap(MapOf({<<<<"x">>, JObj(f)>>})) : f \in VariantFields}

B_full ==
  {<<K_run, JStr(S_ab)>>, <<K_setup, JStr(S_s)>>, <<K_timeout, JNum(5)>>,
   <<K_env, JObj({<<<<"A">>, JStr(<<"1">>)>>, <<<<"B">>, JStr(<<"2">>)>>})>>}
FewBases ==
  {B_full, {}, {<<K_run, JStr(S_ab)>>},
   {<<K_setup, JStr(S_s)>>, <<K_env, JObj({<<<<"A">>, JStr(<<"1">>)>>})>>},
   {<<K_run, JStr(S_ab)>>, <<K_timeout, JNum(0 - 1)>>},
   {<<K_run, JStr(S_empty)>>}}

Documents ==
  {JNull, JArr(<<JObj(B_full)>>), JStr(S_ab)}
    \cup {JObj(b) : b \in BaseFields}
    \cup {JObj(b \cup {<<K_variants, v>>}) : b \in BaseFields, v \in SimpleVariants}
    \cup {JObj(b \cup {<<K_variants, v>>}) : b \in FewBases, v \in RichVariants}

Files ==
  {[kind |-> "unreadable"], [kind |-> "malformed"]}
    \cup {[kind |-> "json", val |-> d] : d \in Documents}

Selectors ==
  {<<Digits[i + 1]>> : i \in 0..MaxIndex}
    \cup {<<"x">>, <<"y">>, <<>>, <<"+", "1">>, <<"-", "1">>, <<"0", "1">>,
          <<"1", "x">>, <<"+">>}

EnvStates ==
  {[st |-> "NotPresent"], [st |-> "NotUnicode"]}
    \cup {[st |-> "set", s |-> k] : k \in Selectors}

(***************************************************************************)
(* get_config, step by step                                                *)
(***************************************************************************)
Pending == [kind |-> "pending"]
Returned(r) == IF r.ok THEN [kind |-> "ok", val |-> r.val]
               ELSE [kind |-> "err", err |-> r.err]
Panicked == [kind |-> "panic"]

EmptyProto == ProtoConfig(None, None, None, EmptyMap)

Init ==
  /\ file \in Files
  /\ envvar \in EnvStates
  /\ pc = "read"
  /\ config_val = JNull
  /\ config = EmptyProto
  /\ variant_key = <<>>
  /\ config_json = None
  /\ result = Pending
  /\ selRead = FALSE
  /\ passes = 0

\* `?` on an Err: get_config returns it
Return(r) ==
  /\ result' = Returned(r)
  /\ pc' = "done"

HasVariants(v) == IsObject(v) /\ K_variants \in DOMAIN v.o

\* read_to_string(filename)? and from_str(&json_str)?
Load ==
  /\ pc = "read"
  /\ IF file.kind = "unreadable"
       THEN Return(Err(E_io)) /\ UNCHANGED config_val
     ELSE IF file.kind = "malformed"
       THEN Return(Err(E_json)) /\ UNCHANGED config_val
     ELSE config_val' = file.val /\ pc' = "base" /\ UNCHANGED result
  /\ UNCHANGED <<file, envvar, config, variant_key, config_json, selRead, passes>>

\* apply_config(&mut config, &config_val)?
ApplyBase ==
  /\ pc = "base"
  /\ LET r == apply_config(config, config_val)
     IN  IF r.ok THEN config' = r.val /\ pc' = "variants" /\ UNCHANGED result
         ELSE Return(r) /\ UNCHANGED config
  /\ passes' = passes + 1
  /\ UNCHANGED <<file, envvar, config_val, variant_key, config_json, selRead>>

\* a selector that is unavailable is taken to be "0"
ReadSelector_default ==
  /\ pc = "variants"
  /\ HasVariants(config_val)
  /\ selRead' = TRUE
  /\ variant_key' = IF envvar.st = "set" THEN envvar.s ELSE <<"0">>
  /\ pc' = "select"
  /\ UNCHANGED <<file, envvar, config_val, config, config_json, passes, result>>

\* the selector is read before `variants` is looked up
ReadSelector_eager ==
  /\ pc = "variants"
  /\ selRead' = TRUE
  /\ IF envvar.st = "set"
       THEN /\ variant_key' = envvar.s
            /\ pc' = IF HasVariants(config_val) THEN "select" ELSE "finalize"
            /\ UNCHANGED result
     ELSE /\ Return(Err(IF envvar.st = "NotPresent" THEN E_not_present
                                                   ELSE E_not_unicode))
          /\ UNCHANGED variant_key
  /\ UNCHANGED <<file, envvar, config_val, config, config_json, passes>>

\* if let Some(variants) = config_val.get("variants"): env::var("SIRUN_VARIANT")?
ReadSelector ==
  /\ pc = "variants"
  /\ HasVariants(config_val)
  /\ selRead' = TRUE
  /\ IF envvar.st = "set"
       THEN variant_key' = envvar.s /\ pc' = "select" /\ UNCHANGED result
     ELSE /\ Return(Err(IF envvar.st = "NotPresent" THEN E_not_present
                                                   ELSE E_not_unicode))
          /\ UNCHANGED variant_key
  /\ UNCHANGED <<file, envvar, config_val, config, config_json, passes>>

\* the choice of config_json among the variants; parse().unwrap() panics
Panic == [ok |-> FALSE, panic |-> TRUE]
IsPanic(r) == ~r.ok /\ "panic" \in DOMAIN r

\* an index past the end is clamped to the last entry
select_variant_clamp(variants, key) ==
  IF IsArray(variants) THEN
    LET idx == parse_usize(key)
        n == Len(variants.a)
    IN  IF ~idx.some THEN Panic
        ELSE IF n = 0 THEN Err(E_index(idx.v))
        ELSE Ok(variants.a[IF idx.v + 1 > n THEN n ELSE idx.v + 1])
  ELSE IF IsObject(variants) THEN
    IF key \in DOMAIN variants.o THEN Ok(variants.o[key])
    ELSE IF DOMAIN variants.o = {} THEN Err(E_key(key))
    ELSE Ok(variants.o[CHOOSE k \in DOMAIN variants.o : TRUE])
  ELSE Err(E_variants_type)

select_variant(variants, key) ==
  IF IsArray(variants) THEN
    LET idx == parse_usize(key)
    IN  IF ~idx.some THEN Panic
        ELSE IF Len(variants.a) <= idx.v THEN Err(E_index(idx.v))
        ELSE Ok(variants.a[idx.v + 1])
  ELSE IF IsObject(variants) THEN
    IF key \in DOMAIN variants.o THEN Ok(variants.o[key])
    ELSE Err(E_key(key))
  ELSE Err(E_variants_type)

SelectVariant ==
  /\ pc = "select"
  /\ LET r == select_variant(config_val.o[K_variants], variant_key)
     IN  IF r.ok
           THEN config_json' = Some(r.val) /\ pc' = "overlay" /\ UNCHANGED result
         ELSE IF IsPanic(r)
           THEN result' = Panicked /\ pc' = "done" /\ UNCHANGED config_json
         ELSE Return(r) /\ UNCHANGED config_json
  /\ UNCHANGED <<file, envvar, config_val, config, variant_key, selRead, passes>>

\* apply_config(&mut config, &config_json.unwrap())?
ApplyVariant ==
  /\ pc = "overlay"
  /\ LET r == apply_config(config, config_json.v)
     IN  IF r.ok THEN config' = r.val /\ pc' = "finalize" /\ UNCHANGED result
         ELSE Return(r) /\ UNCHANGED config
  /\ passes' = passes + 1
  /\ UNCHANGED <<file, envvar, config_val, variant_key, config_json, selRead>>

\* Ok(config.try_into()?)
Finalize ==
  /\ \/ pc = "variants" /\ ~HasVariants(config_val)
     \/ pc = "finalize"
  /\ Return(try_from(config))
  /\ UNCHANGED <<file, envvar, config_val, config, variant_key, config_json,
                 selRead, passes>>

Next ==
  \/ Load
  \/ ApplyBase
  \/ ReadSelector
  \/ SelectVariant
  \/ ApplyVariant
  \/ Finalize

Spec == Init /\ [][Next]_vars

TypeOK ==
  /\ pc \in {"read", "base", "variants", "select", "overlay", "finalize", "done"}
  /\ passes \in 0..2
  /\ result.kind \in {"pending", "ok", "err", "panic"}
  /\ (pc = "done") = (result # Pending)

(***************************************************************************)
(* The inputs as the properties speak of them                              *)
(***************************************************************************)
Done == pc = "done"
IsJson == file.kind = "json"
Doc == file.val

ValidShell(v) == v.t = "str" /\ shlex_split(v.s).some
ValidTimeout(v) == v.t = "num" /\ v.n >= 0
ValidEnv(v) == v.t = "obj" /\ \A k \in DOMAIN v.o : v.o[k].t = "str"
ValidFields(o) ==
  /\ K_run \in DOMAIN o => ValidShell(o[K_run])
  /\ K_setup \in DOMAIN o => ValidShell(o[K_setup])
  /\ K_timeout \in DOMAIN o => ValidTimeout(o[K_timeout])
  /\ K_env \in DOMAIN o => ValidEnv(o[K_env])
ValidObject(v) == v.t = "obj" /\ ValidFields(v.o)

Has(v, k) == v.t = "obj" /\ k \in DOMAIN v.o
Tokens(v) == shlex_split(v.s).v
EnvOf(o) ==
  IF K_env \in DOMAIN o
    THEN [k \in DOMAIN o[K_env].o |-> o[K_env].o[k].s] ELSE EmptyMap

\* the entry of `variants` that the selector names, if it names one
Selected ==
  IF ~(IsJson /\ Has(Doc, K_variants) /\ envvar.st = "set") THEN None
  ELSE LET vs == Doc.o[K_variants]
           i == parse_usize(envvar.s)
       IN  IF vs.t = "arr"
             THEN IF i.some /\ i.v < Len(vs.a) THEN Some(vs.a[i.v + 1]) ELSE None
           ELSE IF vs.t = "obj" /\ envvar.s \in DOMAIN vs.o
             THEN Some(vs.o[envvar.s])
           ELSE None

(***************************************************************************)
(* Properties                                                              *)
(***************************************************************************)

\* C1: a valid top-level object without `variants` resolves to exactly its
\* own fields (run and setup shell-split, timeout and env as given, absent
\* optional fields unset or empty), and fails iff `run` is absent.
C1_BaseFields ==
  (Done /\ IsJson /\ ValidObject(Doc) /\ ~Has(Doc, K_variants)) =>
    LET o == Doc.o
    IN  IF K_run \notin DOMAIN o THEN result.kind = "err"
        ELSE /\ result.kind = "ok"
             /\ result.val.run = Tokens(o[K_run])
             /\ result.val.setup =
                  IF K_setup \in DOMAIN o THEN Some(Tokens(o[K_setup])) ELSE None
             /\ result.val.timeout =
                  IF K_timeout \in DOMAIN o THEN Some(o[K_timeout].n) ELSE None
             /\ result.val.env = EnvOf(o)

C1_Witness ==
  /\ Done /\ IsJson /\ ValidObject(Doc) /\ ~Has(Doc, K_variants)
  /\ {K_run, K_setup, K_timeout, K_env} \subseteq DOMAIN Doc.o
  /\ Doc.o[K_timeout].n = 0
  /\ result.kind = "ok"
  /\ Len(result.val.run) = 3

\* C2: with a selected variant (by index or by key alike), run, setup and
\* timeout come from the variant when it has the field and from the base
\* otherwise, and env is the union of both envs with the variant's value on
\* every shared key.
C2_Overlay ==
  (Done /\ Selected.some /\ result.kind = "ok") =>
    /\ Selected.v.t = "obj"
    /\ LET b == Doc.o
           v == Selected.v.o
           Layer(k) == IF k \in DOMAIN v THEN Some(v[k])
                       ELSE IF k \in DOMAIN b THEN Some(b[k]) ELSE None
       IN  /\ Layer(K_run).some
           /\ result.val.run = Tokens(Layer(K_run).v)
           /\ result.val.setup =
                IF Layer(K_setup).some THEN Some(Tokens(Layer(K_setup).v)) ELSE None
           /\ result.val.timeout =
                IF Layer(K_timeout).some THEN Some(Layer(K_timeout).v.n) ELSE None
           /\ result.val.env =
                [k \in DOMAIN EnvOf(b) \cup DOMAIN EnvOf(v) |->
                   IF k \in DOMAIN EnvOf(v) THEN EnvOf(v)[k] ELSE EnvOf(b)[k]]

C2_Witness ==
  /\ Done /\ Selected.some /\ result.kind = "ok"
  /\ Doc.o[K_variants].t = "obj"
  /\ K_env \in DOMAIN Doc.o /\ Has(Selected.v, K_env)
  /\ Has(Selected.v, K_run) /\ K_run \in DOMAIN Doc.o
  /\ K_setup \in DOMAIN Doc.o /\ ~Has(Selected.v, K_setup)
  /\ DOMAIN result.val.env = {<<"A">>, <<"B">>, <<"C">>}

\* C3: the error "'run' must be provided" is returned exactly when both
\* passes succeed and neither the base nor the selected variant has `run`;
\* a variant that supplies `run` makes up for a base without it, and a
\* document where neither supplies it never yields a config.
NoRunAnywhere ==
  /\ ~Has(Doc, K_run)
  /\ Selected.some => ~Has(Selected.v, K_run)
PassesSucceed ==
  /\ ValidObject(Doc)
  /\ Has(Doc, K_variants) => (Selected.some /\ ValidObject(Selected.v))

C3_RunRequired ==
  (Done /\ IsJson) =>
    /\ (result = Returned(Err(E_run_missing))) <=> (PassesSucceed /\ NoRunAnywhere)
    /\ NoRunAnywhere => result.kind # "ok"
    /\ (PassesSucceed /\ ~NoRunAnywhere) => result.kind = "ok"
    /\ result.kind = "ok" => config.run = Some(result.val.run)

C3_Witness ==
  /\ Done /\ IsJson /\ ~Has(Doc, K_run)
  /\ Selected.some /\ Has(Selected.v, K_run)
  /\ result.kind = "ok"

SelectorMissing == {E_not_present, E_not_unicode}

\* C4 as amended: with a `variants` key and no selector available, no config
\* is returned whatever `variants` is; the error is the selector-missing
\* error when the fields of the top-level object are schema-valid, and the
\* schema error of the base pass otherwise.
C4_SelectorMissing ==
  (Done /\ IsJson /\ Has(Doc, K_variants) /\ envvar.st # "set") =>
    /\ result.kind = "err"
    /\ ValidFields(Doc.o) => (result.err \in SelectorMissing /\ selRead)
    /\ ~ValidFields(Doc.o) => (result.err \notin SelectorMissing /\ ~selRead)

\* C4 as stated: with a `variants` key and no selector available, resolution
\* fails with the selector-missing error.
C4_Original ==
  (Done /\ IsJson /\ Has(Doc, K_variants) /\ envvar.st # "set") =>
    (result.kind = "err" /\ result.err \in SelectorMissing)

C4_Witness ==
  /\ Done /\ IsJson /\ Has(Doc, K_variants) /\ envvar.st = "NotPresent"
  /\ Doc.o[K_variants].t = "str"
  /\ ValidFields(Doc.o) /\ Has(Doc, K_run)
  /\ result = Returned(Err(E_not_present))

IndexPastEnd ==
  /\ IsJson /\ Has(Doc, K_variants) /\ envvar.st = "set"
  /\ Doc.o[K_variants].t = "arr"
  /\ parse_usize(envvar.s).some
  /\ parse_usize(envvar.s).v >= Len(Doc.o[K_variants].a)
KeyNotFound ==
  /\ IsJson /\ Has(Doc, K_variants) /\ envvar.st = "set"
  /\ Doc.o[K_variants].t = "obj"
  /\ envvar.s \notin DOMAIN Doc.o[K_variants].o

\* C5 as amended: an index past the end of an array `variants`, or a key
\* that an object `variants` lacks, never yields a config and no variant is
\* applied; the error names the index or the key when the fields of the
\* top-level object are schema-valid, and is the schema error of the base
\* pass otherwise.
C5_NoSuchVariant ==
  (Done /\ (IndexPastEnd \/ KeyNotFound)) =>
    /\ result.kind = "err"
    /\ passes = 1
    /\ config_json = None
    /\ ValidFields(Doc.o) =>
         result.err = IF IndexPastEnd THEN E_index(parse_usize(envvar.s).v)
                      ELSE E_key(envvar.s)
    /\ ~ValidFields(Doc.o) =>
         result.err # IF IndexPastEnd THEN E_index(parse_usize(envvar.s).v)
                      ELSE E_key(envvar.s)

\* C5 as stated: an index past the end fails with "variant index <i> does
\* not exist in array", a missing key with "variant key <k> does not exist
\* in object", and no variant is applied.
C5_Original ==
  (Done /\ (IndexPastEnd \/ KeyNotFound)) =>
    /\ result.kind = "err"
    /\ result.err = IF IndexPastEnd THEN E_index(parse_usize(envvar.s).v)
                    ELSE E_key(envvar.s)
    /\ passes = 1

C5_Witness ==
  /\ Done /\ IndexPastEnd
  /\ Doc.o[K_variants].a = <<>>
  /\ envvar.s = <<"0">>
  /\ ValidFields(Doc.o) /\ Has(Doc, K_run)
  /\ result = Returned(Err(E_index(0)))

\* C6: with an array `variants` and a selector that is not a non-negative
\* integer, resolution returns an error value and does not crash.
C6_NoCrash ==
  (/\ Done /\ IsJson /\ Has(Doc, K_variants) /\ envvar.st = "set"
   /\ Doc.o[K_variants].t = "arr"
   /\ ~parse_usize(envvar.s).some) =>
    result.kind = "err"

\* C7: every config that is returned has a non-empty run.
C7_RunNonEmpty ==
  (Done /\ result.kind = "ok") => Len(result.val.run) > 0

BaseOutcome(d) ==
  LET r == apply_config(EmptyProto, d)
  IN  IF r.ok THEN try_from(r.val) ELSE r

\* C8: without a `variants` key the selector is never read and the outcome
\* is the outcome of the base document alone, whatever SIRUN_VARIANT holds.
C8_SelectorUnused ==
  (IsJson /\ ~Has(Doc, K_variants)) =>
    /\ ~selRead
    /\ variant_key = <<>>
    /\ Done => result = Returned(BaseOutcome(Doc))

C8_Witness ==
  /\ Done /\ IsJson /\ ~Has(Doc, K_variants)
  /\ envvar.st = "set" /\ envvar.s = <<"1", "x">>
  /\ result.kind = "ok"

\* C9: a config is returned only if the top-level value and the selected
\* variant are objects with well-formed run/setup, a non-negative integer
\* timeout and an env object of strings; a violation in the selected variant
\* fails resolution even with a complete and valid base; a timeout of 0 is
\* accepted.
C9_NoDegraded ==
  (Done /\ IsJson) =>
    /\ result.kind = "ok" => PassesSucceed
    /\ (ValidObject(Doc) /\ Selected.some /\ ~ValidObject(Selected.v)) =>
         result.kind = "err"
    /\ (/\ ValidObject(Doc) /\ ~Has(Doc, K_variants) /\ Has(Doc, K_run)
        /\ Has(Doc, K_timeout) /\ Doc.o[K_timeout] = JNum(0)) =>
         (result.kind = "ok" /\ result.val.timeout = Some(0))

C9_Witness ==
  /\ Done /\ IsJson /\ ValidObject(Doc) /\ Has(Doc, K_run)
  /\ Selected.some /\ Selected.v.t = "obj" /\ ~ValidFields(Selected.v.o)
  /\ result.kind = "err"

Strip(v) ==
  IF v.t = "obj" THEN JMap([k \in DOMAIN v.o \ {K_variants} |-> v.o[k]]) ELSE v

Overlay(b, e) ==
  LET r1 == apply_config(EmptyProto, b)
  IN  IF ~r1.ok THEN r1
      ELSE LET r2 == apply_config(r1.val, e)
           IN  IF ~r2.ok THEN r2 ELSE try_from(r2.val)

\* C10: the outcome depends on `variants` only through the selected entry
\* (or, past the end of an array, through the index); the other entries are
\* neither applied nor validated, and a `variants` key inside the selected
\* entry is ignored.
C10_OnlySelected ==
  (Done /\ IsJson /\ Has(Doc, K_variants) /\ envvar.st = "set") =>
    /\ Selected.some =>
         result = Returned(Overlay(Strip(Doc), Strip(Selected.v)))
    /\ IndexPastEnd =>
         result = Returned(LET r == apply_config(EmptyProto, Strip(Doc))
                           IN  IF r.ok THEN Err(E_index(parse_usize(envvar.s).v))
                               ELSE r)

C10_Witness ==
  /\ Done /\ Selected.some /\ Selected.v = V_nested
  /\ Doc.o[K_variants].t = "arr"
  /\ \E n \in DOMAIN Doc.o[K_variants].a : Doc.o[K_variants].a[n] = JNull
  /\ result.kind = "ok"
  /\ result.val.run = <<S_c>>

====
